---- MODULE Spec2Model ----
(***************************************************************************)
(* A model of dcman.py: the Textual application DockerComposeManagerApp     *)
(* (service registry, workers started by key presses, refresh batches,     *)
(* build logs) and, further down, the process runner of                    *)
(* DockerComposeManager with the operations built on it.                   *)
(***************************************************************************)
EXTENDS Integers, Sequences, FiniteSets, Bags, TLC

\* ------------------------------------------------------------------ bounds
\* Workers started by key presses that are alive at once.
MaxWorkers == 2
\* Key presses (cursor moves included) over one run of the application.
MaxRequests == 3
\* Output lines one streamed build produces.
MaxBuildLines == 1

\* Clock ticks that make up the timeout of one runner call (the code's 5,
\* 60, 300 or 10 seconds).
Timeout == 2
\* Clock ticks past the timeout that the model still follows.
MaxOvertime == 2
\* Output lines one process writes.
MaxLines == 2

\* Compose files one discovery finds.
MaxFiles == 2
\* Output lines one long build produces (one more than the runner's cap
\* of 200 buffered lines).
MaxStreamed == 201

\* ------------------------------------------------------- discovery input
\* What find_compose_files and parse_compose_file deliver: one entry per
\* compose file, the parent directory's name and the service names. The
\* second file declares no service.
ComposeFiles ==
    << [project |-> "web", services |-> <<"app", "db">>],
       [project |-> "api", services |-> <<>>] >>

\* One compose file as discovery sees it: compose_file.parent.name and the
\* keys of its services mapping. Directories of the same name at different
\* places of the tree, and docker-compose.yml next to docker-compose.yaml in
\* one directory, are files with the same project.
DiscoveredFiles ==
    [project : {"web", "api"},
     services : {<<>>, <<"app">>, <<"app", "db">>}]

\* What find_compose_files can return: any sequence of such files.
DiscoveryInputs == UNION {[1..n -> DiscoveredFiles] : n \in 0..MaxFiles}

\* The values a status query of the application resolves to.
QueryStatuses == {"running", "stopped"}

VARIABLES
    compose_files, \* what discovery finds: a sequence of [project, services]
    services,     \* self.services: sequence of [name, project_name, status]
    cursor,       \* table.cursor_row (1-based)
    loader,       \* the worker of load_services_async
    workers,      \* the workers started by run_worker, as a bag
    build_logs,   \* self.build_logs: key -> sequence of appended lines
    status_bar,   \* the kind of message last given to set_status:
                  \* "in_progress" (Cannot ...: operation in progress),
                  \* "no_service" (No service selected), "info" (any other)
    requests,     \* key presses so far
    quit,         \* action_quit: "no", "scheduled" (cleanup_and_quit not yet
                  \* run) or "cancelled" (cleanup_and_quit was cancelled)
    killed,       \* processes killed by a cancelled task that is no longer
                  \* a worker, their exit not yet observed
    outdated,     \* the services whose status was last written from a
                  \* query issued while a command on them was under way,
                  \* or Untracked; the program keeps no such record
    \* --- one call of an operation of DockerComposeManager and its runner
    op,           \* the operation: [name, pc, tail, result, failed]
    rpc,          \* position of run_docker_command_async
    rmode,        \* its arguments: [sink, max_lines]
    proc,         \* the child process: [state, stdout_open, rc]
    produced,     \* every line the process has written so far
    pipe,         \* output written by the process and not yet read
    lines,        \* the deque of decoded lines (streaming mode)
    sink,         \* the lines handed to stream_callback
    elapsed,      \* clock ticks since the process was launched
    timer,        \* clock ticks since the current asyncio.wait_for began
    result        \* the triple returned: [rc, stdout, stderr]

\* the discovery input, the shutdown state and the record of outdated
\* statuses
xvars == <<compose_files, quit, killed, outdated>>

appvars == <<compose_files, services, cursor, loader, workers, build_logs,
            status_bar, requests, quit, killed, outdated>>

rvars == <<op, rpc, rmode, proc, produced, pipe, lines, sink, elapsed, timer,
           result>>

vars == <<compose_files, services, cursor, loader, workers, build_logs,
          status_bar, requests, quit, killed, outdated,
          op, rpc, rmode, proc, produced, pipe, lines, sink, elapsed, timer,
          result>>

\* ----------------------------------------------------------------- helpers
\* a worker that does not exist (not yet started, or ended)
\* toggle is the service action_toggle_service took its decision on (0 for a
\* worker that no toggle started); stale is the set of services of the
\* worker's batch that were queried while a command on them was under way;
\* the program keeps no such records
NoWorker ==
    [kind |-> "none", action |-> "-", pc |-> "idle", svc |-> 0,
     targets |-> {}, pending |-> {}, results |-> <<>>, n |-> 0, toggle |-> 0,
     stale |-> {}]

\* the workers alive, and bag arithmetic on them
Running == BagToSet(workers)

Put(w) == workers (+) SetToBag({w})

Take(w) == workers (-) SetToBag({w})

Swap(w, v) == (workers (-) SetToBag({w})) (+) SetToBag({v})

\* the value of outdated in a run that keeps no record of the queries
\* issued while a command was under way (0 is no position of the registry)
Untracked == {0}

\* the services on which a command of a worker in the bag b is under way
Busy(b) ==
    {w.svc : w \in {x \in BagToSet(b) : x.pc = "cmd"}}

\* Service(name=..., project_name=..., status="loading")
Service(name, project, status) ==
    [name |-> name, project_name |-> project, status |-> status]

\* f"{service.project_name}/{service.name}"
service_key(svc) == <<svc.project_name, svc.name>>

\* get_selected_service: the service under the cursor, 0 for None
get_selected_service ==
    IF Len(services) = 0 THEN 0
    ELSE IF cursor >= 1 /\ cursor <= Len(services) THEN cursor ELSE 0

\* service.status in ("loading", "building")
InProgress_OnlyLoading(status) == status = "loading"

InProgress(status) == status \in {"loading", "building"}

\* [s for s in self.services if s.project_name == project_name]
ProjectServices(svcs, project) ==
    {i \in 1..Len(svcs) : svcs[i].project_name = project}

\* perform_action, the services marked "loading" on admission
MarkTargets_Project(action, svc, svcs) ==
    ProjectServices(svcs, svcs[svc].project_name)

MarkTargets(action, svc, svcs) ==
    IF action = "start"
    THEN ProjectServices(svcs, svcs[svc].project_name)
    ELSE {svc}

\* perform_action, the services queried after the command returned
RefreshTargets_Single(action, svc, svcs) == {svc}

RefreshTargets(action, svc, svcs) ==
    IF action = "start"
    THEN ProjectServices(svcs, svcs[svc].project_name)
    ELSE {svc}

\* a marking that is left for a later turn of the event loop
SetStatus_Later(svcs, targets, status) ==
    svcs

\* for svc in ...: svc.status = status
SetStatus(svcs, targets, status) ==
    [i \in 1..Len(svcs) |->
        IF i \in targets THEN [svcs[i] EXCEPT !.status = status] ELSE svcs[i]]

\* refresh_all_async: for service in self.services: service.status = "loading"
MarkAll_Nothing(svcs) == svcs

MarkAll(svcs) == SetStatus(svcs, 1..Len(svcs), "loading")

\* refresh_services_async: the batch is awaited (asyncio.gather) before any
\* status is written
BatchReady_Any(w) == TRUE

BatchReady(w) == w.pending = {}

\* a refresh that re-creates the registry from the services it queried
ApplyResults_Rescan(svcs, targets, results) ==
    SelectSeq([i \in 1..Len(svcs) |->
                  [svcs[i] EXCEPT !.status =
                      IF i \in targets /\ results[i] # "-"
                      THEN results[i] ELSE "-"]],
              LAMBDA r : r.status # "-")

\* refresh_services_async: for service, status in results: service.status = status
ApplyResults(svcs, targets, results) ==
    [i \in 1..Len(svcs) |->
        IF i \in targets /\ results[i] # "-"
        THEN [svcs[i] EXCEPT !.status = results[i]]
        ELSE svcs[i]]

\* refresh_services_async up to the gather: one fetch_status per service
StartBatch(w, targets) ==
    [w EXCEPT !.pc = "query", !.targets = targets, !.pending = targets,
              !.results = [s \in targets |-> "-"],
              !.stale = IF outdated = Untracked THEN {}
                        ELSE targets \cap Busy(workers (-) SetToBag({w}))]

\* fetch_status of service s returned status st
BatchReturn(w, s, st) ==
    [w EXCEPT !.pending = @ \ {s}, !.results[s] = st]

\* run_worker(coroutine): the coroutine starts at a later turn of the loop
Spawn(kind, action, toggle) ==
    /\ BagCardinality(workers) < MaxWorkers
    /\ workers' = Put([NoWorker EXCEPT !.kind = kind, !.action = action,
                                       !.pc = "new", !.toggle = toggle])

\* one more key press of the user
KeyPress ==
    /\ quit = "no"
    /\ requests < MaxRequests
    /\ requests' = requests + 1

\* -------------------------------------------------------------------- Init
\* DockerComposeManagerApp.__init__ and on_mount
AppStart ==
    /\ quit = "no"
    /\ killed = 0
    /\ services = <<>>
    /\ cursor = 1
    /\ loader = [NoWorker EXCEPT !.kind = "load", !.pc = "scan"]
    /\ workers = EmptyBag
    /\ build_logs = <<>>
    /\ status_bar = "info"
    /\ requests = 0

\* the application started in the directory tree of ComposeFiles
AppInit == compose_files = ComposeFiles /\ AppStart /\ outdated = Untracked

\* ------------------------------------------------------------------- load
\* load_services_async: find_compose_files returned
LoadScan ==
    /\ loader.pc = "scan"
    /\ status_bar' = "info"
    /\ loader' = IF Len(compose_files) = 0
                 THEN [loader EXCEPT !.pc = "done"]
                 ELSE [loader EXCEPT !.pc = "parse", !.svc = 1]
    /\ UNCHANGED <<services, cursor, workers, build_logs, requests>>
    /\ UNCHANGED xvars
    /\ UNCHANGED rvars

\* load_services_async after load_project_async returned: next file or done
LoadNext(w) ==
    IF w.svc < Len(compose_files)
    THEN [w EXCEPT !.pc = "parse", !.svc = w.svc + 1,
                   !.targets = {}, !.pending = {}, !.results = <<>>]
    ELSE [w EXCEPT !.pc = "done", !.targets = {}, !.pending = {},
                   !.results = <<>>]

\* load_project_async: parse_compose_file returned; the services are appended
\* with status "loading" and the project's status batch is started
LoadParse ==
    /\ loader.pc = "parse"
    /\ LET file == compose_files[loader.svc]
           new == [i \in 1..Len(file.services) |->
                      Service(file.services[i], file.project, "loading")]
           svcs == services \o new
       IN  IF Len(file.services) = 0
           THEN /\ loader' = LoadNext(loader)
                /\ status_bar' = IF loader.svc < Len(compose_files)
                                 THEN status_bar ELSE "info"
                /\ UNCHANGED services
           ELSE /\ services' = svcs
                /\ loader' = StartBatch(loader,
                                        ProjectServices(svcs, file.project))
                /\ UNCHANGED status_bar
    /\ UNCHANGED <<cursor, workers, build_logs, requests>>
    /\ UNCHANGED xvars
    /\ UNCHANGED rvars

\* fetch_status: one get_service_status_async call of the project's batch
\* returned
LoadQueryReturn ==
    /\ loader.pc = "query"
    /\ \E s \in loader.pending, st \in QueryStatuses :
          loader' = BatchReturn(loader, s, st)
    /\ UNCHANGED <<services, cursor, workers, build_logs, status_bar, requests>>
    /\ UNCHANGED xvars
    /\ UNCHANGED rvars

\* refresh_services_async after the gather, called by load_project_async
LoadApply ==
    /\ loader.pc = "query"
    /\ BatchReady(loader)
    /\ services' = ApplyResults(services, loader.targets, loader.results)
    /\ loader' = LoadNext(loader)
    /\ status_bar' = IF loader.svc < Len(compose_files)
                     THEN status_bar ELSE "info"
    /\ UNCHANGED <<cursor, workers, build_logs, requests>>
    /\ UNCHANGED xvars
    /\ UNCHANGED rvars

\* ------------------------------------------------------------ key presses
\* the user moves the table cursor
MoveCursor ==
    /\ KeyPress
    /\ \E i \in 1..Len(services) : i # cursor /\ cursor' = i
    /\ UNCHANGED <<services, loader, workers, build_logs, status_bar>>
    /\ UNCHANGED xvars
    /\ UNCHANGED rvars

\* action_start_service / action_stop_service / action_restart_service
PressAction ==
    /\ KeyPress
    /\ \E a \in {"start", "stop", "restart"} : Spawn("action", a, 0)
    /\ UNCHANGED <<services, cursor, loader, build_logs, status_bar>>
    /\ UNCHANGED xvars
    /\ UNCHANGED rvars

\* action_build_service
PressBuild ==
    /\ KeyPress
    /\ LET s == get_selected_service
       IN  IF s # 0 /\ InProgress(services[s].status)
           THEN /\ status_bar' = "in_progress"
                /\ UNCHANGED workers
           ELSE /\ Spawn("build", "build", 0)
                /\ UNCHANGED status_bar
    /\ UNCHANGED <<services, cursor, loader, build_logs>>
    /\ UNCHANGED xvars
    /\ UNCHANGED rvars

\* action_toggle_service
PressToggle ==
    /\ KeyPress
    /\ LET s == get_selected_service
       IN  IF s = 0
           THEN /\ status_bar' = "no_service"
                /\ UNCHANGED workers
           ELSE IF InProgress(services[s].status)
           THEN /\ status_bar' = "in_progress"
                /\ UNCHANGED workers
           ELSE /\ Spawn("action",
                         IF services[s].status = "running"
                         THEN "stop" ELSE "start", s)
                /\ UNCHANGED status_bar
    /\ UNCHANGED <<services, cursor, loader, build_logs>>
    /\ UNCHANGED xvars
    /\ UNCHANGED rvars

\* action_refresh_service_list
PressRefresh ==
    /\ KeyPress
    /\ Spawn("refresh_all", "-", 0)
    /\ UNCHANGED <<services, cursor, loader, build_logs, status_bar>>
    /\ UNCHANGED xvars
    /\ UNCHANGED rvars

\* ---------------------------------------------------------------- workers
\* perform_action up to its first await: selection, gate, marking, dispatch
RunAction ==
    /\ \E w \in Running :
        /\ w.kind = "action" /\ w.pc = "new"
        /\ LET s == get_selected_service
           IN  IF s = 0
               THEN /\ status_bar' = "no_service"
                    /\ workers' = Take(w)
                    /\ UNCHANGED services
               ELSE IF InProgress(services[s].status)
               THEN /\ status_bar' = "in_progress"
                    /\ workers' = Take(w)
                    /\ UNCHANGED services
               ELSE /\ status_bar' = "info"
                    /\ services' = SetStatus(services,
                            MarkTargets(w.action, s, services), "loading")
                    /\ workers' = Swap(w, [w EXCEPT !.pc = "cmd", !.svc = s,
                                                    !.toggle = 0])
    /\ UNCHANGED <<cursor, loader, build_logs, requests>>
    /\ UNCHANGED xvars
    /\ UNCHANGED rvars

\* perform_build up to its first await: selection, gate, marking, log entry
RunBuild ==
    /\ \E w \in Running :
        /\ w.kind = "build" /\ w.pc = "new"
        /\ LET s == get_selected_service
           IN  IF s = 0
               THEN /\ status_bar' = "no_service"
                    /\ workers' = Take(w)
                    /\ UNCHANGED <<services, build_logs>>
               ELSE IF InProgress(services[s].status)
               THEN /\ status_bar' = "in_progress"
                    /\ workers' = Take(w)
                    /\ UNCHANGED <<services, build_logs>>
               ELSE /\ status_bar' = "info"
                    /\ services' = SetStatus(services, {s}, "building")
                    /\ build_logs' =
                          [k \in DOMAIN build_logs
                                    \cup {service_key(services[s])} |->
                              IF k = service_key(services[s]) THEN <<>>
                              ELSE build_logs[k]]
                    /\ workers' = Swap(w, [w EXCEPT !.pc = "cmd", !.svc = s])
    /\ UNCHANGED <<cursor, loader, requests>>
    /\ UNCHANGED xvars
    /\ UNCHANGED rvars

\* refresh_all_async up to the gather
RunRefreshAll ==
    /\ \E w \in Running :
        /\ w.kind = "refresh_all" /\ w.pc = "new"
        /\ workers' = Swap(w, StartBatch(w, 1..Len(services)))
    /\ status_bar' = "info"
    /\ services' = MarkAll(services)
    /\ UNCHANGED <<cursor, loader, build_logs, requests>>
    /\ UNCHANGED xvars
    /\ UNCHANGED rvars

\* append_log, called by the runner for each line of the build's output; a
\* missing key raises KeyError, which the runner turns into exit code -1, and
\* perform_build goes on to its status batch
BuildLineUpTo(max) ==
    /\ \E w \in Running :
        /\ w.kind = "build" /\ w.pc = "cmd"
        /\ w.n < max
        /\ LET key == service_key(services[w.svc])
           IN  IF key \in DOMAIN build_logs
               THEN /\ build_logs' = [build_logs EXCEPT
                                         ![key] = Append(@, w.n + 1)]
                    /\ workers' = Swap(w, [w EXCEPT !.n = @ + 1])
                    /\ UNCHANGED status_bar
               ELSE /\ status_bar' = "info"
                    /\ workers' = Swap(w, [StartBatch(w, {w.svc})
                                               EXCEPT !.n = 0])
                    /\ UNCHANGED build_logs
    /\ UNCHANGED <<services, cursor, loader, requests>>
    /\ UNCHANGED xvars
    /\ UNCHANGED rvars

\* append_log for a build that writes at most MaxBuildLines lines
BuildLine ==
    BuildLineUpTo(MaxBuildLines)

\* execute_action_async / build_service_streaming_async returned, with any
\* exit code; the message is shown and the status batch is started
CmdReturn ==
    /\ \E w \in Running :
        /\ w.pc = "cmd"
        /\ workers' = Swap(w, [StartBatch(w,
                IF w.kind = "build" THEN {w.svc}
                ELSE RefreshTargets(w.action, w.svc, services))
                                  EXCEPT !.n = 0])
    /\ status_bar' = "info"
    /\ UNCHANGED <<services, cursor, loader, build_logs, requests>>
    /\ UNCHANGED xvars
    /\ UNCHANGED rvars

\* fetch_status: one get_service_status_async call of a batch returned
QueryReturn ==
    /\ \E w \in Running :
        /\ w.pc = "query"
        /\ \E s \in w.pending, st \in QueryStatuses :
              workers' = Swap(w, BatchReturn(w, s, st))
    /\ UNCHANGED <<services, cursor, loader, build_logs, status_bar, requests>>
    /\ UNCHANGED xvars
    /\ UNCHANGED rvars

\* refresh_services_async after the gather: the results are written, the
\* table is rebuilt, and the caller continues to its next await or its end
Apply ==
    /\ \E w \in Running :
        /\ w.pc = "query"
        /\ BatchReady(w)
        /\ services' = ApplyResults(services, w.targets, w.results)
        /\ outdated' = IF outdated = Untracked THEN outdated
                       ELSE (outdated \ w.targets) \cup w.stale
        /\ IF w.kind = "build"
           THEN /\ workers' = Swap(w, [w EXCEPT !.pc = "sleep", !.targets = {},
                                                !.results = <<>>,
                                                !.stale = {}])
                /\ UNCHANGED status_bar
           ELSE /\ workers' = Take(w)
                /\ status_bar' = IF w.kind = "refresh_all"
                                 THEN "info" ELSE status_bar
    /\ UNCHANGED <<cursor, loader, build_logs, requests>>
    /\ UNCHANGED <<compose_files, quit, killed>>
    /\ UNCHANGED rvars

\* perform_build after asyncio.sleep(5): the log entry is deleted
BuildCleanup ==
    /\ \E w \in Running :
        /\ w.kind = "build" /\ w.pc = "sleep"
        /\ LET key == service_key(services[w.svc])
           IN  build_logs' = [k \in DOMAIN build_logs \ {key} |-> build_logs[k]]
        /\ workers' = Take(w)
    /\ UNCHANGED <<services, cursor, loader, status_bar, requests>>
    /\ UNCHANGED xvars
    /\ UNCHANGED rvars

\* ------------------------------------------------------------------- quit
\* the workers left by a cancellation of all workers: a worker whose command
\* is in flight is in the runner's cancellation handler, which has killed the
\* process and waits for its exit; every other worker has ended
CancelAll(b) ==
    LET K == {w \in BagToSet(b) : w.pc = "cmd"}
    IN  [v \in {[w EXCEPT !.pc = "killwait"] : w \in K} |->
            CopiesIn([v EXCEPT !.pc = "cmd"], b)]

\* the status queries in flight in the batches of a set of workers
RECURSIVE PendingOf(_, _)
PendingOf(S, b) ==
    IF S = {} THEN 0
    ELSE LET w == CHOOSE x \in S : TRUE
         IN  (IF w.pc = "query" THEN Cardinality(w.pending) * CopiesIn(w, b)
              ELSE 0) + PendingOf(S \ {w}, b)

\* action_quit: run_worker(cleanup_and_quit(), exclusive=True) cancels every
\* worker of the group. A cancelled asyncio.gather raises at once and leaves
\* its fetch_status tasks to kill and await their processes on their own.
PressQuit ==
    /\ KeyPress
    /\ quit' = "scheduled"
    /\ workers' = CancelAll(workers)
    /\ killed' = killed + PendingOf(BagToSet(workers), workers)
                        + (IF loader.pc = "query"
                           THEN Cardinality(loader.pending) ELSE 0)
    /\ loader' = IF loader.pc = "done" THEN loader
                 ELSE [loader EXCEPT !.pc = "cancelled", !.targets = {},
                                     !.pending = {}, !.results = <<>>]
    /\ UNCHANGED outdated
    /\ UNCHANGED <<compose_files, services, cursor, build_logs, status_bar>>
    /\ UNCHANGED rvars

\* cleanup_and_quit: worker.cancel() for every worker of self.workers that
\* is not finished. A worker waiting in the runner's cancellation handler is
\* cancelled a second time and ends with its process not yet reaped; the
\* worker running cleanup_and_quit is itself in self.workers and not
\* finished, so its asyncio.sleep(0.1) raises CancelledError and self.exit()
\* is not reached.
QuitRun ==
    /\ quit = "scheduled"
    /\ quit' = "cancelled"
    /\ killed' = killed + BagCardinality(workers)
    /\ workers' = EmptyBag
    /\ UNCHANGED outdated
    /\ UNCHANGED <<compose_files, services, cursor, loader, build_logs,
                   status_bar, requests>>
    /\ UNCHANGED rvars

\* the process killed by a worker's cancellation handler is reaped: the
\* handler re-raises and the worker ends
ReapWorker ==
    /\ \E w \in Running :
          /\ w.pc = "killwait"
          /\ workers' = Take(w)
    /\ UNCHANGED outdated
    /\ UNCHANGED <<compose_files, services, cursor, loader, build_logs,
                   status_bar, requests, quit, killed>>
    /\ UNCHANGED rvars

\* a process killed by a task that is no longer a worker is reaped
ReapOrphan ==
    /\ killed > 0
    /\ killed' = killed - 1
    /\ UNCHANGED outdated
    /\ UNCHANGED <<compose_files, services, cursor, loader, workers,
                   build_logs, status_bar, requests, quit>>
    /\ UNCHANGED rvars

Next ==
    \/ LoadScan
    \/ LoadParse
    \/ LoadQueryReturn
    \/ LoadApply
    \/ MoveCursor
    \/ PressAction
    \/ PressBuild
    \/ PressToggle
    \/ PressRefresh
    \/ RunAction
    \/ RunBuild
    \/ RunRefreshAll
    \/ BuildLine
    \/ CmdReturn
    \/ QueryReturn
    \/ Apply
    \/ BuildCleanup
    \/ PressQuit
    \/ QuitRun
    \/ ReapWorker
    \/ ReapOrphan

\* ================================================================ runner
\* max_lines=None
None == -1

\* build_service_streaming_async: max_lines=200
BuildMaxLines == 200

\* the cancellation handler: wait_for(process.wait(), timeout=2.0)
CancelWait == 2

\* The text of one output line: blank, or a container state / id.
LineTexts == {"", "running", "exited"}

\* The tail values get_service_logs_async is called with.
LogTails == {0, 1, 2}

NoProc == [state |-> "none", stdout_open |-> FALSE, rc |-> 0]

NoResult == [rc |-> 0, stdout |-> <<>>, stderr |-> "-"]

NoOp ==
    [name |-> "none", pc |-> "idle", status |-> "-", success |-> "-",
     text |-> <<>>, failed |-> {}]

\* no operation has been called
RunnerIdle ==
    /\ op = NoOp
    /\ rpc = "idle"
    /\ rmode = [sink |-> FALSE, max_lines |-> None]
    /\ proc = NoProc
    /\ produced = <<>>
    /\ pipe = <<>>
    /\ lines = <<>>
    /\ sink = <<>>
    /\ elapsed = 0
    /\ timer = 0
    /\ result = NoResult

Init == AppInit /\ RunnerIdle

\* if stream_callback is not None or max_lines is not None
Streaming(m) == m.sink \/ m.max_lines # None

\* deque(maxlen=max_lines) if max_lines else deque(); lines.append(line)
DequeAppend(d, x, max_lines) ==
    IF max_lines # None /\ max_lines # 0
    THEN IF Len(d) >= max_lines
         THEN SubSeq(d, Len(d) - max_lines + 2, Len(d)) \o <<x>>
         ELSE Append(d, x)
    ELSE Append(d, x)

\* str.strip() on a text given as its lines: blank lines at both ends go
RECURSIVE LStrip(_)
LStrip(s) == IF s # <<>> /\ Head(s) = "" THEN LStrip(Tail(s)) ELSE s

RECURSIVE RStrip(_)
RStrip(s) ==
    IF s # <<>> /\ s[Len(s)] = "" THEN RStrip(SubSeq(s, 1, Len(s) - 1)) ELSE s

Strip(s) == RStrip(LStrip(s))

\* the status string a stripped, non-empty inspect output is
StatusText(s) == IF Len(s) = 1 THEN s[1] ELSE "multiline"

\* get_service_status_async: if returncode != 0 or not stdout.strip()
PsSaysStopped(r) == r.rc # 0 \/ Strip(r.stdout) = <<>>

\* get_service_status_async: return stdout.strip() or "unknown"
InspectStatus(r) ==
    IF Strip(r.stdout) = <<>> THEN "unknown" ELSE StatusText(Strip(r.stdout))

\* the failure a returned triple reports, as the set of its kinds
FailureOf(r) ==
    IF r.stderr = "launch" THEN {"launch"}
    ELSE IF r.stderr = "timeout" THEN {"timeout"}
    ELSE IF r.stderr = "callback" THEN {"callback"}
    ELSE IF r.rc # 0 THEN {"nonzero"} ELSE {}

\* run_docker_command_async is entered: await create_subprocess_exec
StartRun(mode) ==
    /\ rpc' = "launch"
    /\ rmode' = mode
    /\ proc' = NoProc
    /\ produced' = <<>>
    /\ pipe' = <<>>
    /\ lines' = <<>>
    /\ sink' = <<>>
    /\ elapsed' = 0
    /\ timer' = 0
    /\ result' = NoResult

\* ----------------------------------------------------------- operations
\* get_service_status_async: docker compose ps -q <service>
CallStatus ==
    /\ op.pc = "idle"
    /\ op' = [NoOp EXCEPT !.name = "status", !.pc = "ps"]
    /\ StartRun([sink |-> FALSE, max_lines |-> None])
    /\ UNCHANGED appvars

\* execute_action_async with action start, stop or restart
CallAction ==
    /\ op.pc = "idle"
    /\ op' = [NoOp EXCEPT !.name = "action", !.pc = "cmd"]
    /\ StartRun([sink |-> FALSE, max_lines |-> None])
    /\ UNCHANGED appvars

\* build_service_async
CallBuild ==
    /\ op.pc = "idle"
    /\ op' = [NoOp EXCEPT !.name = "build", !.pc = "cmd"]
    /\ StartRun([sink |-> FALSE, max_lines |-> None])
    /\ UNCHANGED appvars

\* build_service_streaming_async with a log_callback
CallBuildStreaming ==
    /\ op.pc = "idle"
    /\ op' = [NoOp EXCEPT !.name = "build_streaming", !.pc = "cmd"]
    /\ StartRun([sink |-> TRUE, max_lines |-> BuildMaxLines])
    /\ UNCHANGED appvars

\* get_service_logs_async(tail)
CallLogs ==
    /\ op.pc = "idle"
    /\ \E tail \in LogTails :
          /\ op' = [NoOp EXCEPT !.name = "logs", !.pc = "cmd"]
          /\ StartRun([sink |-> FALSE, max_lines |-> tail])
    /\ UNCHANGED appvars

\* get_service_status_async after the ps command returned
StatusAfterPs ==
    /\ op.name = "status" /\ op.pc = "ps" /\ rpc = "returned"
    /\ IF PsSaysStopped(result)
       THEN /\ op' = [op EXCEPT !.pc = "done", !.status = "stopped",
                                !.failed = @ \cup FailureOf(result)]
            /\ UNCHANGED rpc
            /\ UNCHANGED <<rmode, proc, produced, pipe, lines, sink, elapsed,
                           timer, result>>
       ELSE /\ op' = [op EXCEPT !.pc = "inspect",
                                !.failed = @ \cup FailureOf(result)]
            /\ StartRun([sink |-> FALSE, max_lines |-> None])
    /\ UNCHANGED appvars

\* get_service_status_async after the inspect command returned
StatusAfterInspect ==
    /\ op.name = "status" /\ op.pc = "inspect" /\ rpc = "returned"
    /\ op' = [op EXCEPT !.pc = "done", !.status = InspectStatus(result),
                        !.failed = @ \cup FailureOf(result)]
    /\ UNCHANGED <<rpc, rmode, proc, produced, pipe, lines, sink, elapsed,
                   timer, result>>
    /\ UNCHANGED appvars

\* a success test that also looks at the output text
Succeeded_WithOutput(r) ==
    r.rc = 0 /\ r.stdout # <<>>

\* if returncode == 0: the test the three command operations make
Succeeded(r) ==
    r.rc = 0

\* execute_action_async, build_service_async, build_service_streaming_async:
\* if returncode == 0: return True, ... else: return False, ...
CommandDone ==
    /\ op.name \in {"action", "build", "build_streaming"}
    /\ op.pc = "cmd" /\ rpc = "returned"
    /\ op' = [op EXCEPT !.pc = "done",
                        !.success = IF Succeeded(result) THEN "T" ELSE "F",
                        !.failed = @ \cup FailureOf(result)]
    /\ UNCHANGED <<rpc, rmode, proc, produced, pipe, lines, sink, elapsed,
                   timer, result>>
    /\ UNCHANGED appvars

\* get_service_logs_async: the text, a placeholder or an error text
LogsDone ==
    /\ op.name = "logs" /\ op.pc = "cmd" /\ rpc = "returned"
    /\ op' = [op EXCEPT !.pc = "done",
                        !.success = IF result.rc = 0 THEN "T" ELSE "F",
                        !.text = IF result.rc = 0 THEN result.stdout ELSE <<>>,
                        !.failed = @ \cup FailureOf(result)]
    /\ UNCHANGED <<rpc, rmode, proc, produced, pipe, lines, sink, elapsed,
                   timer, result>>
    /\ UNCHANGED appvars

\* ---------------------------------------------------------- the process
\* the process writes one line to its output
ProcWrite ==
    /\ proc.state = "running" /\ proc.stdout_open
    /\ Len(produced) < MaxLines
    /\ \E x \in LineTexts :
          /\ produced' = Append(produced, x)
          /\ pipe' = Append(pipe, x)
    /\ UNCHANGED <<op, rpc, rmode, proc, lines, sink, elapsed, timer, result>>
    /\ UNCHANGED appvars

\* the process closes its output and keeps running
ProcClose ==
    /\ proc.state = "running" /\ proc.stdout_open
    /\ proc' = [proc EXCEPT !.stdout_open = FALSE]
    /\ UNCHANGED <<op, rpc, rmode, produced, pipe, lines, sink, elapsed,
                   timer, result>>
    /\ UNCHANGED appvars

\* the process exits with code 0 or 1
ProcExit ==
    /\ proc.state = "running"
    /\ \E rc \in {0, 1} :
          proc' = [state |-> "exited", stdout_open |-> FALSE, rc |-> rc]
    /\ UNCHANGED <<op, rpc, rmode, produced, pipe, lines, sink, elapsed,
                   timer, result>>
    /\ UNCHANGED appvars

\* a process that was sent SIGKILL has died and its exit was observed
ProcReap ==
    /\ proc.state = "killed"
    /\ proc' = [proc EXCEPT !.state = "exited"]
    /\ UNCHANGED <<op, rpc, rmode, produced, pipe, lines, sink, elapsed,
                   timer, result>>
    /\ UNCHANGED appvars

\* process.kill() on a process whose exit has not been observed
Killed == [state |-> "killed", stdout_open |-> FALSE, rc |-> -9]

\* the await the runner is suspended in cannot complete yet
RunnerBlocked ==
    \/ rpc = "read" /\ pipe = <<>> /\ proc.stdout_open
    \/ rpc = "wait" /\ proc.state = "running"
    \/ rpc = "communicate" /\ proc.state = "running"
    \/ rpc \in {"killwait", "cancelwait"} /\ proc.state = "killed"

\* one tick of the clock while the call waits for its process; a running
\* asyncio.wait_for does not let its timer pass the timeout
Tick ==
    /\ RunnerBlocked
    /\ elapsed < Timeout + MaxOvertime
    /\ rpc \in {"read", "communicate"} => timer < Timeout
    /\ rpc = "cancelwait" => timer < CancelWait
    /\ elapsed' = elapsed + 1
    /\ timer' = IF rpc \in {"read", "communicate", "cancelwait"}
                THEN timer + 1 ELSE timer
    /\ UNCHANGED <<op, rpc, rmode, proc, produced, pipe, lines, sink, result>>
    /\ UNCHANGED appvars

\* ------------------------------------------- run_docker_command_async
\* create_subprocess_exec returned the process
LaunchOK ==
    /\ rpc = "launch"
    /\ proc' = [state |-> "running", stdout_open |-> TRUE, rc |-> 0]
    /\ rpc' = IF Streaming(rmode) THEN "read" ELSE "communicate"
    /\ timer' = 0
    /\ elapsed' = 0
    /\ UNCHANGED <<op, rmode, produced, pipe, lines, sink, result>>
    /\ UNCHANGED appvars

\* except Exception as e: return -1, "", str(e)
LaunchError_ExitCode == [rc |-> 1, stdout |-> <<>>, stderr |-> "launch"]

LaunchError == [rc |-> -1, stdout |-> <<>>, stderr |-> "launch"]

\* create_subprocess_exec raised: the outer except Exception returns
LaunchFail ==
    /\ rpc = "launch"
    /\ rpc' = "returned"
    /\ result' = LaunchError
    /\ UNCHANGED <<op, rmode, proc, produced, pipe, lines, sink, elapsed, timer>>
    /\ UNCHANGED appvars

\* a sink that receives each line ahead of the earlier ones
Deliver_Front(received, line) ==
    <<line>> \o received

\* stream_callback(decoded_line): what the sink has received after the call
Deliver(received, line) ==
    Append(received, line)

\* streaming: readline returned a line; it is buffered and handed to the
\* callback, and the next wait_for(readline) begins
ReadLine ==
    /\ rpc = "read" /\ pipe # <<>>
    /\ lines' = DequeAppend(lines, Head(pipe), rmode.max_lines)
    /\ sink' = IF rmode.sink THEN Deliver(sink, Head(pipe)) ELSE sink
    /\ pipe' = Tail(pipe)
    /\ timer' = 0
    /\ UNCHANGED <<op, rpc, rmode, proc, produced, elapsed, result>>
    /\ UNCHANGED appvars

\* streaming: the callback raises for the line just buffered; the outer
\* except Exception returns -1 and leaves the process as it is
SinkRaises ==
    /\ rpc = "read" /\ pipe # <<>> /\ rmode.sink
    /\ lines' = DequeAppend(lines, Head(pipe), rmode.max_lines)
    /\ pipe' = Tail(pipe)
    /\ rpc' = "returned"
    /\ result' = [rc |-> -1, stdout |-> <<>>, stderr |-> "callback"]
    /\ UNCHANGED <<op, rmode, proc, produced, sink, elapsed, timer>>
    /\ UNCHANGED appvars

\* streaming: readline returned b"" (end of output): break, await process.wait()
ReadEOF ==
    /\ rpc = "read" /\ pipe = <<>> /\ proc.state # "none" /\ ~proc.stdout_open
    /\ rpc' = "wait"
    /\ UNCHANGED <<op, rmode, proc, produced, pipe, lines, sink, elapsed,
                   timer, result>>
    /\ UNCHANGED appvars

\* streaming: process.wait() returned; stdout = "".join(lines), stderr = ""
WaitDone ==
    /\ rpc = "wait" /\ proc.state = "exited"
    /\ rpc' = "returned"
    /\ result' = [rc |-> proc.rc, stdout |-> lines, stderr |-> ""]
    /\ UNCHANGED <<op, rmode, proc, produced, pipe, lines, sink, elapsed, timer>>
    /\ UNCHANGED appvars

\* capture: process.communicate() returned within the timeout
CommunicateDone ==
    /\ rpc = "communicate" /\ proc.state = "exited" /\ ~proc.stdout_open
    /\ rpc' = "returned"
    /\ result' = [rc |-> proc.rc, stdout |-> pipe,
                  stderr |-> IF proc.rc # 0 THEN "stderr" ELSE ""]
    /\ UNCHANGED <<op, rmode, proc, produced, pipe, lines, sink, elapsed, timer>>
    /\ UNCHANGED appvars

\* except asyncio.TimeoutError: kill and await the process if it has not
\* exited, then return -1, "", "Command timed out ..."
TimeoutFires ==
    /\ rpc \in {"read", "communicate"} /\ timer = Timeout
    /\ IF proc.state = "running"
       THEN /\ proc' = Killed
            /\ rpc' = "killwait"
            /\ UNCHANGED result
       ELSE /\ rpc' = "returned"
            /\ result' = [rc |-> -1, stdout |-> <<>>, stderr |-> "timeout"]
            /\ UNCHANGED proc
    /\ UNCHANGED <<op, rmode, produced, pipe, lines, sink, elapsed, timer>>
    /\ UNCHANGED appvars

\* the timeout handler's process.wait() returned
KillWaitDone ==
    /\ rpc = "killwait" /\ proc.state = "exited"
    /\ rpc' = "returned"
    /\ result' = [rc |-> -1, stdout |-> <<>>, stderr |-> "timeout"]
    /\ UNCHANGED <<op, rmode, proc, produced, pipe, lines, sink, elapsed, timer>>
    /\ UNCHANGED appvars

\* the caller's task is cancelled while the call is suspended at an await.
\* In the try body the except CancelledError handler kills a process whose
\* exit was not observed and waits for it; a CancelledError raised at
\* create_subprocess_exec or inside the timeout handler's process.wait() is
\* re-raised by the outer except CancelledError
Cancel ==
    /\ rpc \in {"launch", "read", "wait", "communicate", "killwait"}
    /\ IF rpc \in {"read", "wait", "communicate"} /\ proc.state = "running"
       THEN /\ proc' = Killed
            /\ rpc' = "cancelwait"
            /\ timer' = 0
       ELSE /\ rpc' = "cancelled"
            /\ UNCHANGED <<proc, timer>>
    /\ UNCHANGED <<op, rmode, produced, pipe, lines, sink, elapsed, result>>
    /\ UNCHANGED appvars

\* the cancellation handler's wait_for(process.wait(), 2.0) returned: raise
CancelWaitDone ==
    /\ rpc = "cancelwait" /\ proc.state = "exited"
    /\ rpc' = "cancelled"
    /\ UNCHANGED <<op, rmode, proc, produced, pipe, lines, sink, elapsed,
                   timer, result>>
    /\ UNCHANGED appvars

\* the cancellation handler's wait_for timed out; contextlib.suppress
\* swallows the TimeoutError: raise
CancelWaitTimeout ==
    /\ rpc = "cancelwait" /\ timer = CancelWait
    /\ rpc' = "cancelled"
    /\ UNCHANGED <<op, rmode, proc, produced, pipe, lines, sink, elapsed,
                   timer, result>>
    /\ UNCHANGED appvars

\* a caller that turns the cancellation into a result of its own
OnCancelled_AsResult(o) ==
    [o EXCEPT !.pc = "done", !.status = "unknown", !.success = "F"]

\* what the operation does with the CancelledError the runner raised:
\* `except Exception` does not catch it and build_service_streaming_async
\* re-raises it, so the operation ends without a value
OnCancelled(o) ==
    [o EXCEPT !.pc = "cancelled"]

\* the CancelledError raised by the runner leaves the operation
OpCancelled ==
    /\ rpc = "cancelled" /\ op.pc \in {"ps", "inspect", "cmd"}
    /\ op' = OnCancelled(op)
    /\ UNCHANGED <<rpc, rmode, proc, produced, pipe, lines, sink, elapsed,
                   timer, result>>
    /\ UNCHANGED appvars

RunnerNext ==
    \/ CallStatus
    \/ CallAction
    \/ CallBuild
    \/ CallBuildStreaming
    \/ CallLogs
    \/ StatusAfterPs
    \/ StatusAfterInspect
    \/ CommandDone
    \/ LogsDone
    \/ ProcWrite
    \/ ProcClose
    \/ ProcExit
    \/ Tick
    \/ LaunchOK
    \/ LaunchFail
    \/ ReadLine
    \/ SinkRaises
    \/ ReadEOF
    \/ WaitDone
    \/ CommunicateDone
    \/ TimeoutFires
    \/ KillWaitDone
    \/ ProcReap
    \/ Cancel
    \/ CancelWaitDone
    \/ CancelWaitTimeout
    \/ OpCancelled

\* the application: discovery, key presses and the workers they start
Spec == Init /\ [][Next]_vars

\* one operation of DockerComposeManager, called on its own
SpecRunner == Init /\ [][RunnerNext]_vars

\* ------------------------------------------------------------------ claims
\* every worker alive, the loader included
AllWorkers == Running \cup {loader}

\* the workers a step changed, as pairs <<before, after>>; NoWorker stands
\* for a worker that is started or ended by the step. A step of the quit
\* sequence cancels workers and runs none of them: it counts as no step of
\* any worker.
Gone == {w \in BagToSet(workers) : CopiesIn(w, workers') < CopiesIn(w, workers)}

Come == {w \in BagToSet(workers') : CopiesIn(w, workers') > CopiesIn(w, workers)}

Steps ==
    IF quit' # quit THEN {} ELSE
    (IF Gone = {} /\ Come = {} THEN {}
     ELSE {<<IF Gone = {} THEN NoWorker ELSE CHOOSE w \in Gone : TRUE,
             IF Come = {} THEN NoWorker ELSE CHOOSE w \in Come : TRUE>>})
    \cup (IF loader' = loader THEN {} ELSE {<<loader, loader'>>})

\* execute_action_async returned: capture mode, where the timeout bounds the
\* whole call
ActionCmdReturn == CmdReturn /\ \E w \in Gone : w.kind = "action"

\* the steps the event loop is bound to take once they are possible: a
\* started coroutine runs, an executor call, a status query (timeout 5) and
\* an action command (timeout 60) return, a sleep ends, a killed process is
\* reaped. Key presses are the user's; the lines and the return of a
\* streamed build depend on the build's process alone, since the read loop
\* restarts its timer with every line and process.wait() has no timeout.
Scheduled ==
    \/ LoadScan
    \/ LoadParse
    \/ LoadQueryReturn
    \/ LoadApply
    \/ RunAction
    \/ RunBuild
    \/ RunRefreshAll
    \/ ActionCmdReturn
    \/ QueryReturn
    \/ Apply
    \/ BuildCleanup
    \/ QuitRun
    \/ ReapWorker
    \/ ReapOrphan

\* discovery alone, over every tree of DiscoveryInputs
DiscoveryInit ==
    /\ compose_files \in DiscoveryInputs
    /\ AppStart
    /\ outdated = Untracked
    /\ RunnerIdle

DiscoveryNext ==
    \/ LoadScan
    \/ LoadParse
    \/ LoadQueryReturn
    \/ LoadApply

SpecDiscovery == DiscoveryInit /\ [][DiscoveryNext]_vars

\* the application under a fair event loop
SpecLive == Init /\ [][Next]_vars /\ WF_vars(Scheduled)

\* a request worker takes its first step (perform_action or perform_build
\* runs up to its first await or its return)
FirstStep(m) ==
    /\ m[1].pc = "new"
    /\ m[1].kind \in {"action", "build"}

\* the services of the project of service s, read off the registry
SameProject(s) ==
    {t \in 1..Len(services) : services[t].project_name = services[s].project_name}

\* C1: a start, stop, restart, toggle or build request whose target service
\* is loading or building is rejected: the step changes no service status and
\* no build-log entry, puts no command or status query in flight, and leaves
\* only the "operation in progress" message. This covers the worker's own
\* gate and every key press made while the selected service is in progress.
C1_GateRejects ==
    [][(/\ get_selected_service # 0
        /\ services[get_selected_service].status \in {"loading", "building"}
        /\ \/ \E m \in Steps : FirstStep(m)
           \/ requests' # requests /\ cursor' = cursor)
       => /\ services' = services
          /\ build_logs' = build_logs
          /\ \A m \in Steps : m[2].pc \notin {"cmd", "query"}
          /\ (\E m \in Steps : FirstStep(m)) => status_bar' = "in_progress"]_vars

\* C1 witness: a request on a building service has been rejected
C1_Witness ==
    /\ status_bar = "in_progress"
    /\ get_selected_service # 0
    /\ services[get_selected_service].status = "building"
    /\ \E w \in Running : w.kind = "build" /\ w.pc = "cmd"
    /\ requests >= 2

\* C2: at most one state-changing command (start, stop, restart or build) is
\* in flight for any given service, over every interleaving of requests and
\* refreshes.
C2_OneCommandPerService ==
    \A w1 \in Running, w2 \in Running :
        (w1.pc = "cmd" /\ w2.pc = "cmd" /\ w1.svc = w2.svc)
        => w1 = w2 /\ CopiesIn(w1, workers) = 1

\* C3: a service whose start/stop/restart or build command is dispatched and
\* has not returned reads loading or building, whatever else runs.
C3_PlaceholderWhileCommand ==
    \A w \in Running :
        w.pc = "cmd" => services[w.svc].status \in {"loading", "building"}

C5_AtomicBatch ==
    [][\A m \in Steps :
        /\ (m[1].pc # "query" /\ m[2].pc = "query")
           => /\ m[2].pending = m[2].targets
              /\ \A s \in m[2].targets : m[2].results[s] = "-"
        /\ (m[1].pc = "query" /\ m[2].pc = "query")
           => /\ services' = services
              /\ m[2].targets = m[1].targets
              /\ \E s \in m[1].pending : m[2].pending = m[1].pending \ {s}
        /\ (m[1].pc = "query" /\ m[2].pc # "query")
           => /\ m[1].pending = {}
              /\ \A s \in m[1].targets :
                    /\ m[1].results[s] \in QueryStatuses
                    /\ services'[s].status = m[1].results[s]]_vars

\* C5 witness: a batch of two services with both results in, not yet applied
C5_Witness ==
    \E w \in AllWorkers :
        /\ w.pc = "query"
        /\ Cardinality(w.targets) >= 2
        /\ w.pending = {}
        /\ \E s \in w.targets : services[s].status # w.results[s]

\* C6: an admitted start on a service of project P leaves every service of P
\* loading when its command is dispatched, and when the command returns a
\* status query is issued for every service of P.
C6_StartWholeProject ==
    [][\A m \in Steps :
        (m[1].kind = "action" /\ m[1].action = "start")
        => /\ (m[1].pc = "new" /\ m[2].pc = "cmd")
              => \A s \in SameProject(m[2].svc) :
                    services'[s].status = "loading"
           /\ (m[1].pc = "cmd" /\ m[2].pc = "query")
              => /\ m[2].targets = SameProject(m[1].svc)
                 /\ m[2].pending = SameProject(m[1].svc)]_vars

\* C6 witness: the project refresh after a start queries the sibling too
C6_Witness ==
    \E w \in Running :
        /\ w.kind = "action" /\ w.action = "start"
        /\ w.pc = "query"
        /\ w.targets # {w.svc}
        /\ w.svc \in w.targets

\* C7: an admitted stop, restart or build on service S writes S's status only
\* (loading, building for a build), queries S only once the command has
\* returned, and its apply step writes S only.
C7_SingleServiceOnly ==
    [][\A m \in Steps :
        (\/ m[1].kind = "build"
         \/ m[1].kind = "action" /\ m[1].action \in {"stop", "restart"})
        => /\ (m[1].pc = "new" /\ m[2].pc = "cmd")
              => /\ services'[m[2].svc].status =
                       IF m[1].kind = "build" THEN "building" ELSE "loading"
                 /\ \A t \in 1..Len(services) :
                       t # m[2].svc => services'[t] = services[t]
           /\ (m[1].pc = "cmd" /\ m[2].pc = "query")
              => /\ m[2].targets = {m[1].svc}
                 /\ m[2].pending = {m[1].svc}
           /\ (m[1].pc = "query" /\ m[2].pc # "query")
              => \A t \in 1..Len(services) :
                    t # m[1].svc => services'[t] = services[t]]_vars

\* C7 witness: a stop is being refreshed while a sibling of the same project
\* keeps its terminal status
C7_Witness ==
    \E w \in Running :
        /\ w.kind = "action" /\ w.action = "stop"
        /\ w.pc = "query"
        /\ w.targets = {w.svc}
        /\ \E t \in SameProject(w.svc) :
              t # w.svc /\ services[t].status \in QueryStatuses

\* C8: a status query in which the ps command or the inspect command fails
\* by launch failure, timeout or non-zero exit resolves to unknown, never to
\* stopped, running or another value.
C8_FailureGivesUnknown ==
    (/\ op.name = "status" /\ op.pc = "done"
     /\ op.failed \cap {"launch", "timeout", "nonzero"} # {})
    => op.status = "unknown"

\* C9: in capture mode and in streaming mode alike, once the time elapsed
\* since launch exceeds the timeout the process has been killed and the call
\* has returned exit code -1: no call is still under way, and no process still
\* running, past the timeout.
C9_TimeoutBoundsWholeCall ==
    elapsed > Timeout
    => /\ rpc = "returned"
       /\ result.rc = -1
       /\ proc.state # "running"

\* C10: a call that returns because of a timeout returns as stdout the output
\* captured before the timeout (the buffered lines in streaming mode, what
\* was read from the pipe in capture mode).
C10_TimeoutKeepsOutput ==
    (rpc = "returned" /\ result.stderr = "timeout")
    => result.stdout = IF Streaming(rmode) THEN lines ELSE pipe

\* C11: when a run of the process runner is cancelled while its process is
\* alive, the cancellation reaches the caller only once the process has been
\* killed and its exit observed; this includes a cancellation that arrives in
\* the timeout handler and a process that takes longer to die than the
\* handler's wait.
C11_ReapedBeforeCancelPropagates ==
    rpc = "cancelled" => proc.state \in {"none", "exited"}

\* C12: when the command cannot be launched the call returns the triple
\* (-1, empty stdout, error message), raises nothing, and no process exists.
C12_LaunchFailureReturned ==
    [][(rpc = "launch" /\ rpc' \notin {"launch", "cancelled"}
        /\ proc'.state = "none")
       => /\ rpc' = "returned"
          /\ result' = [rc |-> -1, stdout |-> <<>>, stderr |-> "launch"]]_vars

\* C12 witness: a call has returned the launch failure and no process exists
C12_Witness ==
    /\ rpc = "returned" /\ result.stderr = "launch" /\ proc.state = "none"
    /\ op.pc = "done" /\ "launch" \in op.failed

\* the last k elements of sequence s
LastLines(s, k) ==
    IF k >= Len(s) THEN s ELSE SubSeq(s, Len(s) - k + 1, Len(s))

\* C13: in streaming mode with a line cap K (the build's 200, any tail of the
\* log fetch, 0 included) the buffer never holds more than K lines, and a
\* run that ends normally returns exactly the last min(n, K) of the n lines
\* the process wrote, in their order.
C13_LastKLines ==
    rmode.max_lines # None
    => /\ Len(lines) <= rmode.max_lines
       /\ (rpc = "returned" /\ result.stderr = "")
          => result.stdout = LastLines(produced, rmode.max_lines)

\* C14: while a build of service S is in flight (command dispatched, not yet
\* returned) the build-log store holds an entry for S's key, also when an
\* earlier build of S finished less than the retention window ago.
C14_EntryWhileBuilding ==
    \A w \in Running :
        (w.kind = "build" /\ w.pc = "cmd")
        => service_key(services[w.svc]) \in DOMAIN build_logs

\* C15: after a build of service S has completed, its build-log entry stays
\* readable until the retention window that follows the build is over and is
\* removed then: no step removes the entry of a key while a build of that key
\* has completed and has not yet reached the end of its window.
C15_RetainedThroughWindow ==
    [][\A k \in DOMAIN build_logs :
          k \notin DOMAIN build_logs'
          => ~ \E w \in BagToSet(workers') :
                  /\ w.kind = "build" /\ w.pc \in {"query", "sleep"}
                  /\ service_key(services[w.svc]) = k]_vars

\* C17: after a quit request the shutdown sequence cancels the workers in
\* flight, waits the grace period and exits: on every quit the exit step is
\* eventually reached.
C17_QuitReachesExit == (quit = "scheduled") ~> (quit = "exited")

\* C18: no two services of the registry have the same (project_name, name)
\* pair, whatever compose files are discovered, two files in directories of
\* the same name and a .yml next to a .yaml file included.
C18_UniqueServiceKeys ==
    \A i \in 1..Len(services), j \in 1..Len(services) :
        i # j => service_key(services[i]) # service_key(services[j])

\* C19: a toggle performs stop on the service if its status is running at
\* the moment the command is dispatched and start for every other status,
\* and the service the command is applied to is the one the decision was
\* taken on.
C19_ToggleByStatusAtDispatch ==
    [][\A m \in Steps :
        (m[1].toggle # 0 /\ m[1].pc = "new" /\ m[2].pc = "cmd")
        => /\ m[2].svc = m[1].toggle
           /\ m[2].action =
                 IF services[m[2].svc].status = "running"
                 THEN "stop" ELSE "start"]_vars

\* the positions of the registry once ComposeFiles is loaded
RegistryPositions ==
    1..(Len(ComposeFiles[1].services) + Len(ComposeFiles[2].services))

\* C20: every service whose status becomes loading or building is
\* eventually given a terminal status, provided no shutdown is requested and
\* scheduling is fair, whether the command succeeds, fails or times out and
\* under any interleaving with other actions and refreshes.
C20_PlaceholderResolves ==
    \A s \in RegistryPositions :
        (/\ quit = "no" /\ s <= Len(services)
         /\ services[s].status \in {"loading", "building"})
        ~> (\/ quit # "no"
            \/ s <= Len(services)
               /\ services[s].status \notin {"loading", "building"})

C22_CancellationPropagates ==
    /\ op.pc = "done" => rpc = "returned"
    /\ (rpc = "cancelled" \/ op.pc = "cancelled") =>
          /\ op.pc \in {"ps", "inspect", "cmd", "cancelled"}
          /\ op.status = "-" /\ op.success = "-" /\ op.text = <<>>
    /\ op.pc = "cancelled" => rpc = "cancelled"

\* C22 witness: a streamed build was cancelled after a line had reached
\* the sink, its process was killed and reaped, and the build ended as a
\* cancellation
C22_Witness ==
    /\ op.name = "build_streaming" /\ op.pc = "cancelled"
    /\ rpc = "cancelled" /\ proc.state = "exited" /\ sink # <<>>

\* ---------------------------------------------------------------- C23
\* append_log for a build that writes up to MaxStreamed lines
BuildStream ==
    BuildLineUpTo(MaxStreamed)

\* the services load_services_async appends for a list of compose files,
\* in order, before their statuses are known
RECURSIVE Declared(_)
Declared(files) ==
    IF files = <<>> THEN <<>>
    ELSE LET file == Head(files)
         IN  [i \in 1..Len(file.services) |->
                 Service(file.services[i], file.project, "loading")]
             \o Declared(Tail(files))

\* the application after load_services_async has finished, every service
\* with the status its query returned, and no key pressed yet
BuildLogInit ==
    /\ compose_files = ComposeFiles
    /\ quit = "no"
    /\ killed = 0
    /\ outdated = Untracked
    /\ \E st \in [1..Len(Declared(ComposeFiles)) -> QueryStatuses] :
          services = [i \in 1..Len(Declared(ComposeFiles)) |->
                         [Declared(ComposeFiles)[i] EXCEPT !.status = st[i]]]
    /\ cursor = 1
    /\ loader = LoadNext([NoWorker EXCEPT !.kind = "load",
                                          !.svc = Len(ComposeFiles)])
    /\ workers = EmptyBag
    /\ build_logs = <<>>
    /\ status_bar = "info"
    /\ requests = 0
    /\ RunnerIdle

\* the loaded application with a user who only builds the selected
\* service, and builds that may write more lines than the runner buffers
BuildLogNext ==
    \/ PressBuild
    \/ RunBuild
    \/ BuildStream
    \/ CmdReturn
    \/ QueryReturn
    \/ Apply
    \/ BuildCleanup

SpecBuildLog == BuildLogInit /\ [][BuildLogNext]_vars

\* C23: the text kept in a service's build-log entry is never longer than
\* the last BuildMaxLines = 200 lines of the build's output.
C23_EntryWithinCap ==
    \A k \in DOMAIN build_logs : Len(build_logs[k]) <= BuildMaxLines

\* ---------------------------------------------------------------- C24
\* C24: the lines handed to the stream sink are at every point a prefix of
\* the lines the process has written, in the order written; while the
\* runner reads, every line it has taken from the output has been handed
\* on before the next one is read.
C24_SinkIsPrefix ==
    /\ Len(sink) <= Len(produced)
    /\ sink = SubSeq(produced, 1, Len(sink))
    /\ (rmode.sink /\ rpc \in {"read", "wait"}) =>
          Len(sink) = Len(produced) - Len(pipe)

\* C24 witness: two different lines were written and both have reached the
\* sink while the runner is still reading
C24_Witness ==
    /\ rmode.sink /\ rpc = "read"
    /\ Len(sink) = 2 /\ sink[1] # sink[2] /\ sink = produced

\* ---------------------------------------------------------------- C25
\* C25: no step removes, inserts or reorders a service: every service keeps
\* its position, its name and its project, the registry grows only while
\* discovery parses a compose file, and what refreshes, actions and builds
\* write is the status field alone.
C25_RegistryFixed ==
    [][/\ Len(services') >= Len(services)
       /\ \A i \in 1..Len(services) :
             /\ services'[i].name = services[i].name
             /\ services'[i].project_name = services[i].project_name
       /\ Len(services') # Len(services) => loader.pc = "parse"]_vars

\* C25 witness: after discovery a refresh of all services and an action
\* have written statuses, and the registry still holds the discovered
\* services in their order
C25_Witness ==
    /\ loader.pc = "done" /\ requests >= 2
    /\ Len(services) = Len(Declared(ComposeFiles))
    /\ \A i \in 1..Len(services) :
          services[i].name = Declared(ComposeFiles)[i].name
    /\ services[1].status = "loading" /\ services[2].status = "running"
    /\ \E w \in Running : w.kind = "action" /\ w.pc = "query"

\* ---------------------------------------------------------------- C26
\* C26: whenever a call of the process runner has returned its triple, the
\* process it launched (if it launched one) has exited; this includes a
\* call that returned because the stream sink failed on a line.
C26_NoProcessLeftAtReturn ==
    rpc = "returned" => proc.state \in {"none", "exited"}

\* ---------------------------------------------------------------- C27
\* the application started with the record of outdated statuses empty
FreshInit ==
    /\ compose_files = ComposeFiles
    /\ AppStart
    /\ outdated = {}
    /\ RunnerIdle

\* the application, with a record kept of the queries issued while a
\* command on their service was under way
SpecFresh == FreshInit /\ [][Next]_vars

\* C27: once every worker has ended (and the application was not quit),
\* no service is left with a status that was written from a query issued
\* while an action or a build on that service was under way, that is,
\* before the last command on the service had returned.
C27_FinalStatusFresh ==
    (workers = EmptyBag /\ loader.pc = "done" /\ quit = "no")
        => outdated = {}

\* ---------------------------------------------------------------- C28
\* C28: the gate check of an action or a build and the write of "loading"
\* or "building" that follows it are one step: a worker that finds the
\* selected service with a terminal status is admitted for that service
\* and leaves it with the gate closed in the same step, so that the next
\* worker to run for that service, with no batch written in between, is
\* rejected.
C28_GateAndMarkOneStep ==
    [][\A m \in Steps :
          (/\ FirstStep(m)
           /\ get_selected_service # 0
           /\ ~InProgress(services[get_selected_service].status))
          => /\ m[2].pc = "cmd"
             /\ m[2].svc = get_selected_service
             /\ InProgress(services'[m[2].svc].status)
             /\ cursor' = cursor]_vars

\* C28 witness: two keys were pressed for the selected service; the worker
\* that ran first was admitted and runs its command, and the other was
\* rejected
C28_Witness ==
    /\ loader.pc = "done" /\ requests = 2
    /\ status_bar = "in_progress"
    /\ BagCardinality(workers) = 1
    /\ \E w \in Running :
          /\ w.kind = "action" /\ w.pc = "cmd"
          /\ w.svc = get_selected_service
          /\ services[w.svc].status = "loading"

====
